---- MODULE Spec2Model ----
(***************************************************************************)
(* The Confluence content lifecycle client (package confluence), its       *)
(* markup validators, the provider's Configure, the handlers of the page   *)
(* resource and the page data source, and the remote content store the     *)
(* client talks to.                                                        *)
(*                                                                         *)
(* One invocation of a client function is a short-lived process: every     *)
(* action below is one blocking network call together with the client code *)
(* that runs up to the next call or to the function's return.  The store   *)
(* answers each call honestly, with a server error, with a body that is    *)
(* not JSON, or not at all (transport failure).                            *)
(***************************************************************************)
EXTENDS Integers, Sequences, FiniteSets, TLC

\* ------------------------------------------------------------------ bounds
MaxVersions == 3     \* longest version history a page is let grow to
MaxLen == 3          \* longest markup, in lexemes, handed to the Markup Validator

\* ------------------------------------------------------- program constants
StatusOK == 200
StatusNoContent == 204
StatusNotFound == 404
UpdateKeep == 1      \* RemovePreviousVersions(config, contentId, 1)
RootId == 1          \* the page the provider expects to find: the parent page

Nil == "nil"         \* the nil error
EOF == "EOF"         \* io.EOF

Procs == {1, 2}
\* The ids of the store: the root page and the one page callers manage.
PageIds == {RootId, RootId + 1}
ManagedIds == PageIds \ {RootId}
Titles == {"T1", "T2"}

\* ------------------------------------------------------------------ markup
\* A body is a sequence of lexemes of the markup; text holds no '<'.
Lexemes == {"<p>", "</p>", "<br>", "<br/>", "<br />", "<hr>", "<hr/>", "<hr />", "ok"}

TagName(lx) ==
    CASE lx \in {"<p>", "</p>"} -> "p"
      [] lx \in {"<br>", "<br/>", "<br />"} -> "br"
      [] lx \in {"<hr>", "<hr/>", "<hr />"} -> "hr"
      [] OTHER -> ""

\* The token the XML decoder's rawToken reads from one lexeme; a self-closing
\* tag is returned as its start half and sets needClose.
rawToken(lx) ==
    [k |-> IF lx = "ok" THEN "text" ELSE IF lx = "</p>" THEN "end" ELSE "start",
     n |-> TagName(lx),
     selfClose |-> lx \in {"<br/>", "<br />", "<hr/>", "<hr />"}]

\* xml.HTMLAutoClose, restricted to the tags of Lexemes.
HTMLAutoClose == {"br", "hr"}

Contains(htmlStr, lx) == \E i \in 1..Len(htmlStr) : htmlStr[i] = lx

\* The non-strict xml.Decoder run to its first error: d.Token() in a loop.
\* stk is the element stack (top first), nextToken the token deferred by an
\* auto-close, toClose the pending end half of a self-closing or mismatched tag.
RECURSIVE xmlDecode(_, _, _, _)
xmlDecode(input, stk, nextToken, toClose) ==
    IF nextToken = <<>> /\ toClose = <<>> /\ input = <<>>
    THEN IF stk # <<>> THEN "XML syntax error: unexpected EOF" ELSE EOF
    ELSE
      LET fromInput == nextToken = <<>> /\ toClose = <<>>
          t == IF nextToken # <<>> THEN nextToken[1]
               ELSE IF toClose # <<>> THEN [k |-> "end", n |-> toClose[1], selfClose |-> FALSE]
               ELSE rawToken(Head(input))
          input1 == IF fromInput THEN Tail(input) ELSE input
          toClose1 == IF nextToken # <<>> THEN toClose
                      ELSE IF toClose # <<>> THEN <<>>
                      ELSE IF t.selfClose THEN <<t.n>> ELSE <<>>
      IN  IF stk # <<>> /\ Head(stk) \in HTMLAutoClose /\ ~(t.k = "end" /\ t.n = Head(stk))
          THEN xmlDecode(input1, Tail(stk), <<t>>, toClose1)
          ELSE CASE t.k = "text" -> xmlDecode(input1, stk, <<>>, toClose1)
                 [] t.k = "start" -> xmlDecode(input1, <<t.n>> \o stk, <<>>, toClose1)
                 [] t.k = "end" ->
                      IF stk = <<>>
                      THEN "XML syntax error: unexpected end element"
                      ELSE IF Head(stk) # t.n
                      THEN xmlDecode(input1, Tail(stk), <<>>, <<t.n>>)
                      ELSE xmlDecode(input1, Tail(stk), <<>>, toClose1)

BrError == "Invalid Html specified. Suggestion: Conflence requires: <br />"
HrError == "Invalid Html specified. Suggestion: Conflence requires: <hr />"

\* A validator that also turns the spaced form of the line break away.
isValidConfluenceHtmlInternalNoBreak(htmlStr) ==
    LET err == xmlDecode(htmlStr, <<>>, <<>>, <<>>)
    IN  IF err = EOF
        THEN IF Contains(htmlStr, "<br>") \/ Contains(htmlStr, "<br/>")
                \/ Contains(htmlStr, "<br />") THEN BrError
             ELSE IF Contains(htmlStr, "<hr>") \/ Contains(htmlStr, "<hr/>") THEN HrError
             ELSE Nil
        ELSE err

\* A validator that looks for the tag forms before it looks at the parse.
isValidConfluenceHtmlInternalFormsFirst(htmlStr) ==
    LET err == xmlDecode(htmlStr, <<>>, <<>>, <<>>)
    IN  IF Contains(htmlStr, "<br>") \/ Contains(htmlStr, "<br/>") THEN BrError
        ELSE IF Contains(htmlStr, "<hr>") \/ Contains(htmlStr, "<hr/>") THEN HrError
        ELSE IF err = EOF THEN Nil ELSE err

\* The Markup Validator behind the resource schema's body attribute.
isValidConfluenceHtmlInternal(htmlStr) ==
    LET err == xmlDecode(htmlStr, <<>>, <<>>, <<>>)
    IN  IF err = EOF
        THEN IF Contains(htmlStr, "<br>") \/ Contains(htmlStr, "<br/>") THEN BrError
             ELSE IF Contains(htmlStr, "<hr>") \/ Contains(htmlStr, "<hr/>") THEN HrError
             ELSE Nil
        ELSE err

\* The client's own check: the HTML tokenizer is run to the end of the string;
\* on an in-memory string its only error is io.EOF, which is "valid".
RECURSIVE isValidHTML(_)
isValidHTML(htmlStr) ==
    IF htmlStr = <<>> THEN Nil ELSE isValidHTML(Tail(htmlStr))

\* The bodies callers pass: two the validator accepts, one it rejects for a
\* tag form, one it rejects as malformed.
Bodies ==
    { <<"<p>", "ok", "</p>">>,
      <<"<p>", "ok", "</p>", "<br />">>,
      <<"<br>", "ok">>,
      <<"ok", "</p>">> }

\* Every markup of at most MaxLen lexemes.
Markups == UNION {[1..n -> Lexemes] : n \in 0..MaxLen}

\* ----------------------------------------------------------------- records
ZeroDetail ==
    [Id |-> 0, Title |-> "", Version |-> 0, SpaceId |-> 0, Body |-> <<>>,
     ParentContentId |-> 0, ResponseStatusCode |-> 0]

ZeroRequest ==
    [Id |-> 0, Status |-> "", Title |-> "", SpaceId |-> 0, Body |-> <<>>,
     Version |-> 0, ParentContentId |-> 0]

\* The null Terraform state: no resource, or a data source not yet read.
NullState == [Id |-> 0, Title |-> "", Body |-> <<>>, ParentId |-> 0, SpaceId |-> 0,
              VersionNumber |-> 0, null |-> TRUE]

\* A provider attribute as configured, and the three of them.
StringNull == [null |-> TRUE, unknown |-> FALSE, value |-> ""]
StringUnknown == [null |-> FALSE, unknown |-> TRUE, value |-> ""]
StringValue(v) == [null |-> FALSE, unknown |-> FALSE, value |-> v]
NullConfig == [BaseUrl |-> StringNull, Username |-> StringNull, Apikey |-> StringNull]

\* The environment: CONFLUENCE_BASE_URL, CONFLUENCE_USERNAME, CONFLUENCE_API_KEY.
NoEnv == [BaseUrl |-> "", Username |-> "", Apikey |-> ""]

\* No client configuration handed on, and one that is.
NoClient == [baseurl |-> "", username |-> "", apikey |-> "", set |-> FALSE]
NewConfig(baseurl, username, apikey) ==
    [baseurl |-> baseurl, username |-> username, apikey |-> apikey, set |-> TRUE]

\* The arguments of an invocation; state is the req.State a handler gets,
\* handler says that the resource's Create or Update made the call, config and
\* env are what a Configure finds.
NoArg ==
    [contentId |-> 0, parentContentId |-> 0, title |-> "", body |-> <<>>,
     removePreviousVersions |-> FALSE, numberOfVersionsToKeep |-> 0,
     state |-> NullState, handler |-> FALSE, config |-> NullConfig, env |-> NoEnv]

NoPage == [exists |-> FALSE, title |-> "", spaceId |-> 0, parentId |-> 0, hist |-> <<>>]

VARIABLES
    pages,             \* the store: page id -> page (hist: bodies, oldest first)
    nextId,            \* the store: the id the next created page gets
    kind,              \* per process: the client function invoked
    pc,                \* per process: where the invocation stands
    arg,               \* per process: the invocation's arguments
    detail,            \* per process: the ContentDetail the invocation holds
    request,           \* per process: the request the invocation built
    versionsToDelete,  \* per process: the prune loop's counter
    calls,             \* per process: the network calls issued, in order
    ret,               \* per process: the ContentDetail returned
    err,               \* per process: the error returned (Nil: none)
    state,             \* per process: the resp.State a Read handler leaves
    diags,             \* per process: the errors in a handler's resp.Diagnostics
    client             \* per process: the resp.ResourceData a Configure hands on

vars == <<pages, nextId, kind, pc, arg, detail, request, versionsToDelete, calls, ret, err,
          state, diags, client>>

\* ------------------------------------------------------------------- store
\* The record a fetch of page id decodes to.
PageDetail(id) ==
    [Id |-> id, Title |-> pages[id].title, Version |-> Len(pages[id].hist),
     SpaceId |-> pages[id].spaceId, Body |-> pages[id].hist[Len(pages[id].hist)],
     ParentContentId |-> pages[id].parentId, ResponseStatusCode |-> 0]

Exists(id) == id \in PageIds /\ pages[id].exists

Http(status, rec) == [kind |-> "http", status |-> status, rec |-> rec]
Transport == [kind |-> "transport", status |-> 0, rec |-> ZeroDetail]
BadJson(status) == [kind |-> "badjson", status |-> status, rec |-> ZeroDetail]

\* An error answer carries a JSON error object: it decodes to the zero record.
ServerError == Http(500, ZeroDetail)

StoreGet(id) ==
    IF Exists(id) THEN Http(StatusOK, PageDetail(id)) ELSE Http(StatusNotFound, ZeroDetail)

GetResponses(id) == {StoreGet(id), ServerError, Transport, BadJson(502)}

\* A mutating call: the answers it can get, each with the store it leaves.  A
\* transport failure may strike before the store acted or after it.
Outcomes(honest) ==
    { honest,
      [resp |-> ServerError, pages |-> pages, nextId |-> nextId],
      [resp |-> Transport, pages |-> pages, nextId |-> nextId],
      [resp |-> Transport, pages |-> honest.pages, nextId |-> honest.nextId] }

\* The answer to a POST is decoded for the new id: it may also be a 200 whose
\* body is not JSON.
PostOutcomes(honest) ==
    Outcomes(honest) \cup
        {[resp |-> IF honest.resp.status = StatusOK THEN BadJson(StatusOK) ELSE ServerError,
          pages |-> honest.pages, nextId |-> honest.nextId]}

StorePut(id, req) ==
    IF ~Exists(id)
    THEN [resp |-> Http(StatusNotFound, ZeroDetail), pages |-> pages, nextId |-> nextId]
    ELSE IF req.Id # id \/ req.Version # Len(pages[id].hist) + 1 \/ req.Status # "current"
    THEN [resp |-> Http(409, ZeroDetail), pages |-> pages, nextId |-> nextId]
    ELSE LET new == [pages[id] EXCEPT !.title = req.Title, !.spaceId = req.SpaceId,
                                      !.hist = Append(@, req.Body)]
         IN  [resp |-> Http(StatusOK, [PageDetail(id) EXCEPT !.Title = req.Title,
                                          !.SpaceId = req.SpaceId, !.Body = req.Body,
                                          !.Version = req.Version]),
              pages |-> [pages EXCEPT ![id] = new], nextId |-> nextId]

StorePost(req) ==
    IF ~Exists(req.ParentContentId) \/ req.SpaceId # pages[req.ParentContentId].spaceId
       \/ req.Status # "current" \/ nextId \notin PageIds
    THEN [resp |-> Http(400, ZeroDetail), pages |-> pages, nextId |-> nextId]
    ELSE LET new == [exists |-> TRUE, title |-> req.Title, spaceId |-> req.SpaceId,
                     parentId |-> req.ParentContentId, hist |-> <<req.Body>>]
         IN  [resp |-> Http(StatusOK, [ZeroDetail EXCEPT !.Id = nextId, !.Title = req.Title,
                                          !.SpaceId = req.SpaceId, !.Body = req.Body,
                                          !.Version = 1,
                                          !.ParentContentId = req.ParentContentId]),
              pages |-> [pages EXCEPT ![nextId] = new], nextId |-> nextId + 1]

\* DELETE .../content/{id}/version/1: the oldest version goes and the rest are
\* renumbered from 1; the current version cannot be deleted.
StoreDeleteVersion(id) ==
    IF ~Exists(id)
    THEN [resp |-> Http(StatusNotFound, ZeroDetail), pages |-> pages, nextId |-> nextId]
    ELSE IF Len(pages[id].hist) < 2
    THEN [resp |-> Http(400, ZeroDetail), pages |-> pages, nextId |-> nextId]
    ELSE [resp |-> Http(StatusNoContent, ZeroDetail),
          pages |-> [pages EXCEPT ![id].hist = Tail(@)], nextId |-> nextId]

StoreDeletePage(id) ==
    IF ~Exists(id)
    THEN [resp |-> Http(StatusNotFound, ZeroDetail), pages |-> pages, nextId |-> nextId]
    ELSE [resp |-> Http(StatusOK, ZeroDetail),
          pages |-> [pages EXCEPT ![id] = NoPage], nextId |-> nextId]

\* ------------------------------------------------------------------ client
\* GetContentDetailById on one answer: a transport failure is returned as an
\* error, a body that does not decode ends the process (log.Fatal), anything
\* else is returned with the answer's status recorded in the record.
GetContentDetailById(resp) ==
    IF resp.kind = "transport" THEN [out |-> "err", detail |-> ZeroDetail]
    ELSE IF resp.kind = "badjson" THEN [out |-> "fatal", detail |-> ZeroDetail]
    ELSE [out |-> "ok", detail |-> [resp.rec EXCEPT !.ResponseStatusCode = resp.status]]

\* A request that leaves the title of the fetched record out.
NewUpdateOperationRequestNoTitle(d, body) ==
    [err |-> isValidHTML(body),
     request |-> [Id |-> d.Id, Status |-> "current", Title |-> "",
                  SpaceId |-> d.SpaceId, Body |-> body, Version |-> d.Version + 1,
                  ParentContentId |-> 0]]

\* A request that re-sends the fetched version number instead of the next one.
NewUpdateOperationRequestSameVersion(d, body) ==
    [err |-> isValidHTML(body),
     request |-> [Id |-> d.Id, Status |-> "current", Title |-> d.Title,
                  SpaceId |-> d.SpaceId, Body |-> body, Version |-> d.Version,
                  ParentContentId |-> 0]]

NewUpdateOperationRequest(d, body) ==
    IF isValidHTML(body) # Nil
    THEN [err |-> isValidHTML(body), request |-> ZeroRequest]
    ELSE [err |-> Nil,
          request |-> [Id |-> d.Id, Status |-> "current", Title |-> d.Title,
                       SpaceId |-> d.SpaceId, Body |-> body, Version |-> d.Version + 1,
                       ParentContentId |-> 0]]

\* A request that leaves the title out.
NewNewOperationRequestNoTitle(title, spaceId, body, parentContentId) ==
    [err |-> isValidHTML(body),
     request |-> [Id |-> 0, Status |-> "current", Title |-> "",
                  SpaceId |-> spaceId, Body |-> body, Version |-> 0,
                  ParentContentId |-> parentContentId]]

NewNewOperationRequest(title, spaceId, body, parentContentId) ==
    IF isValidHTML(body) # Nil
    THEN [err |-> isValidHTML(body), request |-> ZeroRequest]
    ELSE [err |-> Nil,
          request |-> [Id |-> 0, Status |-> "current", Title |-> title,
                       SpaceId |-> spaceId, Body |-> body, Version |-> 0,
                       ParentContentId |-> parentContentId]]

\* A check that lets every answer below 500 through.
UpdateRejectedOnlyServerErrors(status) == status >= 500

\* if upResp.StatusCode != 200 / if newResp.StatusCode != 200
UpdateRejected(status) == status # StatusOK
CreateRejected(status) == status # StatusOK

\* A check that takes only a server error for a refusal.
DeleteRejectedOnlyServerErrors(status) == status >= 500

\* if upResp.StatusCode != 200
DeleteRejected(status) == status # StatusOK

\* A guard that lets a request to keep no version through.
PruneRefusesNegative(numberOfVersionsToKeep) == numberOfVersionsToKeep < 0

\* if numberOfVersionsToKeep < 1 { os.Exit(1) }
PruneRefuses(numberOfVersionsToKeep) == numberOfVersionsToKeep < 1

\* A count that forgets the versions to keep.
VersionsToDeleteAll(d, numberOfVersionsToKeep) == d.Version

\* A count that is one short.
VersionsToDeleteOneShort(d, numberOfVersionsToKeep) == d.Version - numberOfVersionsToKeep - 1

\* versionsToDelete := contentDetail.Version.Number - numberOfVersionsToKeep
VersionsToDelete(d, numberOfVersionsToKeep) == d.Version - numberOfVersionsToKeep

\* A loop that gives up at the first DELETE not answered 204.
AfterVersionDeleteAbort(n, status) == IF status # StatusNoContent THEN 0 ELSE n - 1

\* A loop that holds its counter when a DELETE is not answered 204.
AfterVersionDeleteRetry(n, status) == IF status # StatusNoContent THEN n ELSE n - 1

\* One pass of the delete loop after its DELETE was answered with status: a
\* status other than 204 is logged, and the counter goes down either way.
AfterVersionDelete(n, status) == n - 1

\* The attributes the resource and the data source expose of a fetched record.
pageResourceModel(d) ==
    [Id |-> d.Id, Title |-> d.Title, Body |-> d.Body, ParentId |-> d.ParentContentId,
     SpaceId |-> d.SpaceId, VersionNumber |-> d.Version, null |-> FALSE]

\* A Read that takes a 404 for an error like any other status.
pageResourceReadStrict(prior, got) ==
    IF got.out = "err"
    THEN [state |-> prior, diags |-> <<"Unable to Read Page">>]
    ELSE IF got.detail.ResponseStatusCode # StatusOK
    THEN [state |-> prior, diags |-> <<"Unexpected HTTP error code received for page">>]
    ELSE [state |-> pageResourceModel(got.detail), diags |-> <<>>]

\* pageResource.Read once GetContentDetailById has returned got: resp.State
\* starts as the prior state req.State.
pageResourceRead(prior, got) ==
    IF got.out = "err"
    THEN [state |-> prior, diags |-> <<"Unable to Read Page">>]
    ELSE IF got.detail.ResponseStatusCode = StatusNotFound
    THEN [state |-> NullState, diags |-> <<>>]
    ELSE IF got.detail.ResponseStatusCode # StatusOK
    THEN [state |-> prior, diags |-> <<"Unexpected HTTP error code received for page">>]
    ELSE [state |-> pageResourceModel(got.detail), diags |-> <<>>]

\* pageResource.Create once CreateNewPage has returned (d, e): resp.State
\* starts null.
pageResourceCreate(prior, d, e) ==
    IF e # Nil
    THEN [state |-> prior, diags |-> <<"Unable to Create Item">>]
    ELSE [state |-> pageResourceModel(d), diags |-> <<>>]

\* pageResource.Update once UpdateContentById has returned (d, e): resp.State
\* starts as the prior state.
pageResourceUpdate(prior, d, e) ==
    IF e # Nil
    THEN [state |-> prior, diags |-> <<"Unable to Update Page">>]
    ELSE IF d.ResponseStatusCode # StatusOK
    THEN [state |-> prior, diags |-> <<"Unexpected HTTP error code received for Page">>]
    ELSE [state |-> pageResourceModel(d), diags |-> <<>>]

\* pageDataSource.Read once GetContentDetailById has returned got: resp.State
\* starts null.
pageDataSourceRead(got) ==
    IF got.out = "err"
    THEN [state |-> NullState, diags |-> <<"Unable to Read Page">>]
    ELSE IF got.detail.ResponseStatusCode # StatusOK
    THEN [state |-> NullState, diags |-> <<"Unable to Read Page">>]
    ELSE [state |-> pageResourceModel(got.detail), diags |-> <<>>]

\* A logged call: its method, the page it names (POST: the id its answer
\* brought back), the version number it carried (PUT) or brought back (GET),
\* and the status of its answer (0: none).
Call(m, id, ver, resp) == [m |-> m, id |-> id, ver |-> ver, st |-> resp.status, kind |-> resp.kind]

Log(p, c) == calls' = [calls EXCEPT ![p] = Append(@, c)]

\* The function returns (rec, e) to its caller; its locals are gone.
Return(p, rec, e) ==
    /\ pc' = [pc EXCEPT ![p] = "returned"]
    /\ ret' = [ret EXCEPT ![p] = rec]
    /\ err' = [err EXCEPT ![p] = e]
    /\ detail' = [detail EXCEPT ![p] = ZeroDetail]
    /\ request' = [request EXCEPT ![p] = ZeroRequest]
    /\ versionsToDelete' = [versionsToDelete EXCEPT ![p] = 0]

\* log.Fatal, os.Exit or a panic: the host process ends, nothing is returned.
Exit(p) ==
    /\ pc' = [pc EXCEPT ![p] = "exited"]
    /\ detail' = [detail EXCEPT ![p] = ZeroDetail]
    /\ request' = [request EXCEPT ![p] = ZeroRequest]
    /\ versionsToDelete' = [versionsToDelete EXCEPT ![p] = 0]
    /\ UNCHANGED <<ret, err>>

\* The function goes on to its next call, holding d, r and n.
Goto(p, l, d, r, n) ==
    /\ pc' = [pc EXCEPT ![p] = l]
    /\ detail' = [detail EXCEPT ![p] = d]
    /\ request' = [request EXCEPT ![p] = r]
    /\ versionsToDelete' = [versionsToDelete EXCEPT ![p] = n]
    /\ UNCHANGED <<ret, err>>

Free(p) == pc[p] \in {"idle", "returned", "exited"}

Invoke(p, k, a, l) ==
    /\ Free(p)
    /\ kind' = [kind EXCEPT ![p] = k]
    /\ arg' = [arg EXCEPT ![p] = a]
    /\ pc' = [pc EXCEPT ![p] = l]
    /\ detail' = [detail EXCEPT ![p] = ZeroDetail]
    /\ request' = [request EXCEPT ![p] = ZeroRequest]
    /\ versionsToDelete' = [versionsToDelete EXCEPT ![p] = 0]
    /\ calls' = [calls EXCEPT ![p] = <<>>]
    /\ ret' = [ret EXCEPT ![p] = ZeroDetail]
    /\ err' = [err EXCEPT ![p] = Nil]
    /\ client' = [client EXCEPT ![p] = NoClient]
    /\ UNCHANGED <<pages, nextId>>

\* An invocation of a client function outside the Read handlers.
Begin(p, k, a, l) ==
    /\ Invoke(p, k, a, l)
    /\ state' = [state EXCEPT ![p] = NullState]
    /\ diags' = [diags EXCEPT ![p] = <<>>]

\* What the step of a client function leaves of resp.State and
\* resp.Diagnostics: when the function returns into the resource's Create or
\* Update, the rest of that handler runs on what it returned.
Handler(p) ==
    IF arg[p].handler /\ pc'[p] = "returned"
    THEN LET out == IF kind[p] = "Create"
                    THEN pageResourceCreate(arg[p].state, ret'[p], err'[p])
                    ELSE pageResourceUpdate(arg[p].state, ret'[p], err'[p])
         IN  /\ state' = [state EXCEPT ![p] = out.state]
             /\ diags' = [diags EXCEPT ![p] = out.diags]
    ELSE UNCHANGED <<state, diags>>

\* Where the prune loop goes when its counter is spent: back into Update, or
\* return nil.
PruneDone(p) ==
    IF kind[p] = "Update"
    THEN Goto(p, "final_get", ZeroDetail, ZeroRequest, 0)
    ELSE Return(p, ZeroDetail, Nil)

\* ---------------------------------------------------------------- Update
StartUpdate(p, contentId, body, removePreviousVersions) ==
    /\ Exists(contentId) => Len(pages[contentId].hist) < MaxVersions
    /\ Begin(p, "Update",
             [NoArg EXCEPT !.contentId = contentId, !.body = body,
                           !.removePreviousVersions = removePreviousVersions,
                           !.numberOfVersionsToKeep = UpdateKeep],
             "update_get")

UpdateFetch(p) ==
    /\ kind[p] = "Update" /\ pc[p] = "update_get"
    /\ \E resp \in GetResponses(arg[p].contentId) :
         LET got == GetContentDetailById(resp)
             upd == NewUpdateOperationRequest(got.detail, arg[p].body)
         IN  /\ Log(p, Call("GET", arg[p].contentId, resp.rec.Version, resp))
             /\ IF got.out # "ok" \/ upd.err # Nil
                THEN Exit(p)
                ELSE Goto(p, "update_put", got.detail, upd.request, 0)
    /\ UNCHANGED <<pages, nextId, kind, arg, client>>
    /\ Handler(p)

UpdatePut(p) ==
    /\ kind[p] = "Update" /\ pc[p] = "update_put"
    /\ \E o \in Outcomes(StorePut(arg[p].contentId, request[p])) :
         /\ pages' = o.pages
         /\ nextId' = o.nextId
         /\ Log(p, Call("PUT", arg[p].contentId, request[p].Version, o.resp))
         /\ IF o.resp.kind # "http"
            THEN Return(p, ZeroDetail, "transport")
            ELSE IF UpdateRejected(o.resp.status)
            THEN Return(p, ZeroDetail, "Error Updating content")
            ELSE IF ~arg[p].removePreviousVersions
            THEN Goto(p, "final_get", ZeroDetail, ZeroRequest, 0)
            ELSE IF PruneRefuses(arg[p].numberOfVersionsToKeep)
            THEN Exit(p)
            ELSE Goto(p, "prune_get", ZeroDetail, ZeroRequest, 0)
    /\ UNCHANGED <<kind, arg, client>>
    /\ Handler(p)

\* ----------------------------------------------------------------- Prune
StartPrune(p, contentId, numberOfVersionsToKeep) ==
    Begin(p, "Prune",
          [NoArg EXCEPT !.contentId = contentId, !.removePreviousVersions = TRUE,
                        !.numberOfVersionsToKeep = numberOfVersionsToKeep],
          IF PruneRefuses(numberOfVersionsToKeep) THEN "exited" ELSE "prune_get")

PruneFetch(p) ==
    /\ pc[p] = "prune_get"
    /\ \E resp \in GetResponses(arg[p].contentId) :
         LET got == GetContentDetailById(resp)
             n == VersionsToDelete(got.detail, arg[p].numberOfVersionsToKeep)
         IN  /\ Log(p, Call("GET", arg[p].contentId, resp.rec.Version, resp))
             /\ IF got.out # "ok" THEN Exit(p)
                ELSE IF n <= 0 THEN PruneDone(p)
                ELSE Goto(p, "prune_delete", ZeroDetail, ZeroRequest, n)
    /\ UNCHANGED <<pages, nextId, kind, arg, client>>
    /\ Handler(p)

PruneDelete(p) ==
    /\ pc[p] = "prune_delete"
    /\ \E o \in Outcomes(StoreDeleteVersion(arg[p].contentId)) :
         LET n == AfterVersionDelete(versionsToDelete[p], o.resp.status)
         IN  /\ pages' = o.pages
             /\ nextId' = o.nextId
             /\ Log(p, Call("VDELETE", arg[p].contentId, 0, o.resp))
             /\ IF o.resp.kind # "http" THEN Exit(p)
                ELSE IF n <= 0 THEN PruneDone(p)
                ELSE Goto(p, "prune_delete", ZeroDetail, ZeroRequest, n)
    /\ UNCHANGED <<kind, arg, client>>
    /\ Handler(p)

\* ------------------------------------------------- the closing fetch-by-id
\* return GetContentDetailById(config, id): the last statement of Create and
\* Update, and all of a plain fetch.
FetchTarget(p) == IF kind[p] = "Create" THEN detail[p].Id ELSE arg[p].contentId

FinalFetch(p) ==
    /\ pc[p] = "final_get"
    /\ \E resp \in GetResponses(FetchTarget(p)) :
         LET got == GetContentDetailById(resp)
         IN  /\ Log(p, Call("GET", FetchTarget(p), resp.rec.Version, resp))
             /\ IF got.out = "fatal" THEN Exit(p)
                ELSE IF got.out = "err" THEN Return(p, ZeroDetail, "transport")
                ELSE Return(p, got.detail, Nil)
    /\ UNCHANGED <<pages, nextId, kind, arg, client>>
    /\ Handler(p)

\* pageResource.Update: UpdateContentById on the plan's id and body, always
\* with pruning.  The plan's body has passed the schema's validator.
StartResourceUpdate(p, prior, body) ==
    /\ isValidConfluenceHtmlInternal(body) = Nil
    /\ Exists(prior.Id) => Len(pages[prior.Id].hist) < MaxVersions
    /\ Invoke(p, "Update",
              [NoArg EXCEPT !.contentId = prior.Id, !.body = body,
                            !.removePreviousVersions = TRUE,
                            !.numberOfVersionsToKeep = UpdateKeep,
                            !.state = prior, !.handler = TRUE],
              "update_get")
    /\ state' = [state EXCEPT ![p] = prior]
    /\ diags' = [diags EXCEPT ![p] = <<>>]

StartFetch(p, contentId) ==
    Begin(p, "Fetch", [NoArg EXCEPT !.contentId = contentId], "final_get")

\* ------------------------------------------------------- the Read handlers
\* The states a resource can be in before a Read: written by an earlier Create.
PriorStates ==
    {[NullState EXCEPT !.Id = id, !.Title = t, !.Body = <<"<p>", "ok", "</p>">>,
                       !.ParentId = RootId, !.SpaceId = pages[RootId].spaceId,
                       !.VersionNumber = 1, !.null = FALSE] :
        id \in ManagedIds, t \in Titles}

StartResourceRead(p, prior) ==
    /\ Invoke(p, "ResourceRead", [NoArg EXCEPT !.contentId = prior.Id, !.state = prior],
              "read_get")
    /\ state' = [state EXCEPT ![p] = prior]
    /\ diags' = [diags EXCEPT ![p] = <<>>]

StartDataSourceRead(p, contentId) ==
    /\ Invoke(p, "DataSourceRead", [NoArg EXCEPT !.contentId = contentId], "read_get")
    /\ state' = [state EXCEPT ![p] = NullState]
    /\ diags' = [diags EXCEPT ![p] = <<>>]

\* The handler's one call into the client and what it makes of the result.
Read(p) ==
    /\ kind[p] \in {"ResourceRead", "DataSourceRead"} /\ pc[p] = "read_get"
    /\ \E resp \in GetResponses(arg[p].contentId) :
         LET got == GetContentDetailById(resp)
             out == IF kind[p] = "ResourceRead"
                    THEN pageResourceRead(arg[p].state, got)
                    ELSE pageDataSourceRead(got)
         IN  /\ Log(p, Call("GET", arg[p].contentId, resp.rec.Version, resp))
             /\ IF got.out = "fatal"
                THEN Exit(p) /\ UNCHANGED <<state, diags, client>>
                ELSE /\ Return(p, got.detail, IF got.out = "err" THEN "transport" ELSE Nil)
                     /\ state' = [state EXCEPT ![p] = out.state]
                     /\ diags' = [diags EXCEPT ![p] = out.diags]
    /\ UNCHANGED <<pages, nextId, kind, arg, client>>

\* ------------------------------------------------- the schema's validator
\* ValidateString is handed the configured body: null, unknown, or a string.
StartValidate(p, configValue, value) ==
    /\ Invoke(p, "ValidateString", [NoArg EXCEPT !.title = configValue, !.body = value],
              "validate")
    /\ state' = [state EXCEPT ![p] = NullState]
    /\ diags' = [diags EXCEPT ![p] = <<>>]

ValidateString(p) ==
    /\ kind[p] = "ValidateString" /\ pc[p] = "validate"
    /\ LET validHtmlError == IF arg[p].title \in {"null", "unknown"} THEN Nil
                             ELSE isValidConfluenceHtmlInternal(arg[p].body)
       IN  /\ Return(p, ZeroDetail, validHtmlError)
           /\ diags' = [diags EXCEPT ![p] = IF validHtmlError # Nil
                                             THEN <<validHtmlError>> ELSE <<>>]
    /\ UNCHANGED <<pages, nextId, kind, arg, calls, state, client>>

\* ------------------------------------------------- the provider's Configure
\* The values an attribute can be configured with, and a variable can hold.
ConfigValues == {StringNull, StringUnknown, StringValue(""), StringValue("cfg")}
EnvValues == {"", "env"}

\* The errors of the first pass: an attribute given as an unknown value.
UnknownErrors(config) ==
    (IF config.BaseUrl.unknown THEN <<"base_url: Unknown Confluence Cloud API Base Url">>
     ELSE <<>>)
    \o (IF config.Username.unknown THEN <<"username: Unknown Confluence Cloud API Username">>
        ELSE <<>>)
    \o (IF config.Username.unknown THEN <<"api_key: Unknown Confluence Cloud API Key">>
        ELSE <<>>)

\* A resolution that lets the environment win.
ResolveEnvFirst(configured, envValue) ==
    IF envValue # "" THEN envValue ELSE configured.value

\* The environment's value, overridden by a configured one that is not null.
Resolve(configured, envValue) ==
    IF ~configured.null THEN configured.value ELSE envValue

\* The errors of the second pass: a value empty after resolution.
MissingErrors(baseurl, username, apikey) ==
    (IF baseurl = "" THEN <<"base_url: Missing Confluence API Base Url">> ELSE <<>>)
    \o (IF username = "" THEN <<"username: Missing Confluence API username">> ELSE <<>>)
    \o (IF apikey = "" THEN <<"api_key: Missing Confluence API key">> ELSE <<>>)

StartConfigure(p, config, env) ==
    /\ Invoke(p, "Configure", [NoArg EXCEPT !.config = config, !.env = env], "configure")
    /\ state' = [state EXCEPT ![p] = NullState]
    /\ diags' = [diags EXCEPT ![p] = <<>>]

\* Configure up to its call of GetContentDetailById, or to its return.
Configure(p) ==
    /\ kind[p] = "Configure" /\ pc[p] = "configure"
    /\ LET config == arg[p].config
           baseurl == Resolve(config.BaseUrl, arg[p].env.BaseUrl)
           username == Resolve(config.Username, arg[p].env.Username)
           apikey == Resolve(config.Apikey, arg[p].env.Apikey)
       IN  IF UnknownErrors(config) # <<>>
           THEN /\ Return(p, ZeroDetail, Nil)
                /\ diags' = [diags EXCEPT ![p] = UnknownErrors(config)]
           ELSE IF MissingErrors(baseurl, username, apikey) # <<>>
           THEN /\ Return(p, ZeroDetail, Nil)
                /\ diags' = [diags EXCEPT ![p] = MissingErrors(baseurl, username, apikey)]
           ELSE /\ Goto(p, "configure_get", ZeroDetail, ZeroRequest, 0)
                /\ UNCHANGED diags
    /\ UNCHANGED <<pages, nextId, kind, arg, calls, state, client>>

\* The fetch of page 1 with the resolved credentials, and the hand-over.
ConfigureFetch(p) ==
    /\ kind[p] = "Configure" /\ pc[p] = "configure_get"
    /\ \E resp \in GetResponses(RootId) :
         LET got == GetContentDetailById(resp)
             config == arg[p].config
         IN  /\ Log(p, Call("GET", RootId, resp.rec.Version, resp))
             /\ IF got.out = "fatal"
                THEN Exit(p) /\ UNCHANGED <<diags, client>>
                ELSE IF got.out = "err"
                THEN /\ Return(p, ZeroDetail, Nil)
                     /\ diags' = [diags EXCEPT ![p] =
                                     <<"Unable to Create Confluence API Client">>]
                     /\ UNCHANGED client
                ELSE /\ Return(p, ZeroDetail, Nil)
                     /\ client' = [client EXCEPT ![p] =
                            NewConfig(Resolve(config.BaseUrl, arg[p].env.BaseUrl),
                                      Resolve(config.Username, arg[p].env.Username),
                                      Resolve(config.Apikey, arg[p].env.Apikey))]
                     /\ UNCHANGED diags
    /\ UNCHANGED <<pages, nextId, kind, arg, state>>

\* ---------------------------------------------------------------- Create
StartCreate(p, parentContentId, title, body) ==
    /\ nextId \in PageIds
    /\ Begin(p, "Create",
             [NoArg EXCEPT !.parentContentId = parentContentId, !.title = title,
                           !.body = body],
             "create_get")

\* pageResource.Create: CreateNewPage on the plan's parent, title and body.
\* The plan's body has passed the schema's validator.
StartResourceCreate(p, parentContentId, title, body) ==
    /\ isValidConfluenceHtmlInternal(body) = Nil
    /\ nextId \in PageIds
    /\ Invoke(p, "Create",
              [NoArg EXCEPT !.parentContentId = parentContentId, !.title = title,
                            !.body = body, !.handler = TRUE],
              "create_get")
    /\ state' = [state EXCEPT ![p] = NullState]
    /\ diags' = [diags EXCEPT ![p] = <<>>]

CreateFetchParent(p) ==
    /\ kind[p] = "Create" /\ pc[p] = "create_get"
    /\ \E resp \in GetResponses(arg[p].parentContentId) :
         LET got == GetContentDetailById(resp)
             new == NewNewOperationRequest(arg[p].title, got.detail.SpaceId, arg[p].body,
                                           arg[p].parentContentId)
         IN  /\ Log(p, Call("GET", arg[p].parentContentId, resp.rec.Version, resp))
             /\ IF got.out = "fatal" THEN Exit(p)
                ELSE IF got.out = "err" THEN Return(p, ZeroDetail, "transport")
                ELSE IF new.err # Nil THEN Return(p, ZeroDetail, new.err)
                ELSE Goto(p, "create_post", got.detail, new.request, 0)
    /\ UNCHANGED <<pages, nextId, kind, arg, client>>
    /\ Handler(p)

\* A Create that returns the record of the POST's answer as it came.
CreatePostTrusted(p) ==
    /\ kind[p] = "Create" /\ pc[p] = "create_post"
    /\ \E o \in PostOutcomes(StorePost(request[p])) :
         /\ pages' = o.pages
         /\ nextId' = o.nextId
         /\ Log(p, Call("POST", o.resp.rec.Id, 0, o.resp))
         /\ IF o.resp.kind = "transport"
            THEN Return(p, ZeroDetail, "transport")
            ELSE IF CreateRejected(o.resp.status)
            THEN Return(p, ZeroDetail, "Error Updating content")
            ELSE IF o.resp.kind = "badjson"
            THEN Return(p, ZeroDetail, "json: cannot unmarshal")
            ELSE Return(p, o.resp.rec, Nil)
    /\ UNCHANGED <<kind, arg, client>>
    /\ Handler(p)

CreatePost(p) ==
    /\ kind[p] = "Create" /\ pc[p] = "create_post"
    /\ \E o \in PostOutcomes(StorePost(request[p])) :
         /\ pages' = o.pages
         /\ nextId' = o.nextId
         /\ Log(p, Call("POST", o.resp.rec.Id, 0, o.resp))
         /\ IF o.resp.kind = "transport"
            THEN Return(p, ZeroDetail, "transport")
            ELSE IF CreateRejected(o.resp.status)
            THEN Return(p, ZeroDetail, "Error Updating content")
            ELSE IF o.resp.kind = "badjson"
            THEN Return(p, ZeroDetail, "json: cannot unmarshal")
            ELSE Goto(p, "final_get", o.resp.rec, ZeroRequest, 0)
    /\ UNCHANGED <<kind, arg, client>>
    /\ Handler(p)

\* ---------------------------------------------------------------- Delete
StartDelete(p, contentId) ==
    Begin(p, "Delete", [NoArg EXCEPT !.contentId = contentId], "delete_page")

DeletePage(p) ==
    /\ kind[p] = "Delete" /\ pc[p] = "delete_page"
    /\ \E o \in Outcomes(StoreDeletePage(arg[p].contentId)) :
         /\ pages' = o.pages
         /\ nextId' = o.nextId
         /\ Log(p, Call("DELETE", arg[p].contentId, 0, o.resp))
         /\ IF o.resp.kind # "http"
            THEN Exit(p)
            ELSE IF DeleteRejected(o.resp.status)
            THEN Return(p, ZeroDetail, "Error Deleting content")
            ELSE Return(p, ZeroDetail, Nil)
    /\ UNCHANGED <<kind, arg, state, diags, client>>

\* ------------------------------------------------------------ specification
Init ==
    /\ pages = [id \in PageIds |->
                  IF id = RootId
                  THEN [exists |-> TRUE, title |-> "root", spaceId |-> 7, parentId |-> 0,
                        hist |-> << <<"ok">> >>]
                  ELSE NoPage]
    /\ nextId = RootId + 1
    /\ kind = [p \in Procs |-> "none"]
    /\ pc = [p \in Procs |-> "idle"]
    /\ arg = [p \in Procs |-> NoArg]
    /\ detail = [p \in Procs |-> ZeroDetail]
    /\ request = [p \in Procs |-> ZeroRequest]
    /\ versionsToDelete = [p \in Procs |-> 0]
    /\ calls = [p \in Procs |-> <<>>]
    /\ ret = [p \in Procs |-> ZeroDetail]
    /\ err = [p \in Procs |-> Nil]
    /\ state = [p \in Procs |-> NullState]
    /\ diags = [p \in Procs |-> <<>>]
    /\ client = [p \in Procs |-> NoClient]

Start(p) ==
    \/ \E id \in ManagedIds, b \in Bodies, r \in BOOLEAN : StartUpdate(p, id, b, r)
    \/ \E id \in PageIds, t \in Titles, b \in Bodies : StartCreate(p, id, t, b)
    \/ \E id \in ManagedIds, keep \in 0..2 : StartPrune(p, id, keep)
    \/ \E id \in ManagedIds : StartFetch(p, id)
    \/ \E id \in ManagedIds : StartDelete(p, id)
    \/ \E prior \in PriorStates : StartResourceRead(p, prior)
    \/ \E id \in ManagedIds : StartDataSourceRead(p, id)
    \/ \E id \in PageIds, t \in Titles, b \in Bodies : StartResourceCreate(p, id, t, b)
    \/ \E prior \in PriorStates, b \in Bodies : StartResourceUpdate(p, prior, b)

Step(p) ==
    \/ UpdateFetch(p)
    \/ UpdatePut(p)
    \/ PruneFetch(p)
    \/ PruneDelete(p)
    \/ FinalFetch(p)
    \/ CreateFetchParent(p)
    \/ CreatePost(p)
    \/ DeletePage(p)
    \/ Read(p)

\* One caller at a time: the client is synchronous and single-threaded.
Next == Start(1) \/ Step(1)

Spec == Init /\ [][Next]_vars

\* ------------------------------------------------ the validator on its own
\* One configured body is validated in a run.
ValidatorStart(p) ==
    /\ pc[p] = "idle"
    /\ \/ \E value \in Markups : StartValidate(p, "known", value)
       \/ \E configValue \in {"null", "unknown"} : StartValidate(p, configValue, <<>>)

ValidatorNext == ValidatorStart(1) \/ ValidateString(1)

ValidatorSpec == Init /\ [][ValidatorNext]_vars

\* ------------------------------------------------- the provider on its own
ProviderStart(p) ==
    \E b, u, k \in ConfigValues, eb, eu, ek \in EnvValues :
        StartConfigure(p, [BaseUrl |-> b, Username |-> u, Apikey |-> k],
                          [BaseUrl |-> eb, Username |-> eu, Apikey |-> ek])

ProviderNext == ProviderStart(1) \/ Configure(1) \/ ConfigureFetch(1)

ProviderSpec == Init /\ [][ProviderNext]_vars

\* ------------------------------------------- two callers updating one page
\* The page both callers update, and the body each of them passes.
SharedId == RootId + 1
OwnBody(p) == IF p = 1 THEN <<"<p>", "ok", "</p>">> ELSE <<"<p>", "ok", "</p>", "<br />">>

\* The page has been created and stands at its first version.
ConcInit ==
    /\ pages = [id \in PageIds |->
                  IF id = RootId
                  THEN [exists |-> TRUE, title |-> "root", spaceId |-> 7, parentId |-> 0,
                        hist |-> << <<"ok">> >>]
                  ELSE [exists |-> TRUE, title |-> "T1", spaceId |-> 7, parentId |-> RootId,
                        hist |-> << <<"ok">> >>]]
    /\ nextId = SharedId + 1
    /\ kind = [p \in Procs |-> "none"]
    /\ pc = [p \in Procs |-> "idle"]
    /\ arg = [p \in Procs |-> NoArg]
    /\ detail = [p \in Procs |-> ZeroDetail]
    /\ request = [p \in Procs |-> ZeroRequest]
    /\ versionsToDelete = [p \in Procs |-> 0]
    /\ calls = [p \in Procs |-> <<>>]
    /\ ret = [p \in Procs |-> ZeroDetail]
    /\ err = [p \in Procs |-> Nil]
    /\ state = [p \in Procs |-> NullState]
    /\ diags = [p \in Procs |-> <<>>]
    /\ client = [p \in Procs |-> NoClient]

\* Each caller makes one Update of the shared page, with pruning.
ConcStart(p) == pc[p] = "idle" /\ StartUpdate(p, SharedId, OwnBody(p), TRUE)

ConcStep(p) ==
    \/ UpdateFetch(p)
    \/ UpdatePut(p)
    \/ PruneFetch(p)
    \/ PruneDelete(p)
    \/ FinalFetch(p)

\* The calls of the two callers interleave in any order.
ConcNext == \E p \in Procs : ConcStart(p) \/ ConcStep(p)

ConcSpec == ConcInit /\ [][ConcNext]_vars

\* ------------------------------------------------------------------ claims
Returned(p) == pc[p] = "returned"
Succeeded(p) == pc[p] = "returned" /\ err[p] = Nil
Answered(c) == c.kind = "http"
Last(p) == calls[p][Len(calls[p])]
Count(p, m) == Cardinality({i \in DOMAIN calls[p] : calls[p][i].m = m})
Methods(p) == [i \in DOMAIN calls[p] |-> calls[p][i].m]
Repeat(x, n) == [i \in 1..n |-> x]
Max0(n) == IF n > 0 THEN n ELSE 0
Rejects(body) == isValidConfluenceHtmlInternal(body) # Nil
PruningUpdate(p) == kind[p] = "Update" /\ arg[p].removePreviousVersions
CurrentBody(id) == pages[id].hist[Len(pages[id].hist)]
\* The record a fetch answered with status st returns.
Fetched(id, st) ==
    IF st = StatusOK
    THEN [PageDetail(id) EXCEPT !.ResponseStatusCode = st]
    ELSE [ZeroDetail EXCEPT !.ResponseStatusCode = st]

\* C1 (as claimed): after every Update with pruning that returned success,
\* the store's version history of the page holds exactly one version.
C1_OneVersionAfterUpdate ==
    \A p \in Procs :
        (PruningUpdate(p) /\ Succeeded(p) /\ Exists(arg[p].contentId))
            => Len(pages[arg[p].contentId].hist) = 1

\* C2: an Update's PUT is its second call, issued after its own fetch of the
\* same id was answered, and it carries the fetched version number plus 1.
C2_PutCarriesFetchedVersionPlusOne ==
    \A p \in Procs :
        kind[p] = "Update" =>
            /\ pc[p] = "update_put" => request[p].Version = detail[p].Version + 1
            /\ \A i \in DOMAIN calls[p] :
                 calls[p][i].m = "PUT" =>
                    /\ i = 2
                    /\ calls[p][1].m = "GET"
                    /\ calls[p][1].id = arg[p].contentId
                    /\ Answered(calls[p][1])
                    /\ calls[p][i].id = arg[p].contentId
                    /\ calls[p][i].ver = calls[p][1].ver + 1

C2_Witness ==
    \E p \in Procs :
        /\ kind[p] = "Update" /\ Len(calls[p]) >= 2
        /\ calls[p][1].st = StatusOK /\ calls[p][1].ver = 2
        /\ calls[p][2].m = "PUT" /\ calls[p][2].ver = 3 /\ calls[p][2].st = StatusOK

\* C3 (as claimed): for a body the Markup Validator rejects, Create issues no
\* POST and Update issues no PUT.
C3_RejectedBodyNeverSent ==
    \A p \in Procs :
        (kind[p] \in {"Create", "Update"} /\ Rejects(arg[p].body))
            => Count(p, "POST") = 0 /\ Count(p, "PUT") = 0

\* C4 (as claimed): when the first fetch of an Update fails, a 404 answer
\* included, the Update issues no PUT.
C4_NoPutAfterFailedFetch ==
    \A p \in Procs :
        (kind[p] = "Update" /\ Len(calls[p]) >= 1
            /\ (~Answered(calls[p][1]) \/ calls[p][1].st # StatusOK))
            => Count(p, "PUT") = 0

\* An Update with pruning that returned success with every fetch answered 200.
CleanUpdate(p) ==
    /\ PruningUpdate(p) /\ Succeeded(p)
    /\ \A i \in DOMAIN calls[p] : calls[p][i].m = "GET" => calls[p][i].st = StatusOK

\* C5 (as claimed): a successful Update with pruning of a page at version v
\* issues GET, PUT(v+1), the version DELETEs (one when v = 1), GET and no
\* other call, and returns versionNumber v+1 and the body passed.
C5_UpdateCallsAsClaimed ==
    \A p \in Procs :
        CleanUpdate(p) =>
            LET v == calls[p][1].ver
                k == Count(p, "VDELETE")
            IN  /\ Methods(p) = <<"GET", "PUT">> \o Repeat("VDELETE", k) \o <<"GET">>
                /\ v = 1 => k = 1
                /\ calls[p][2].ver = v + 1
                /\ ret[p].Version = v + 1
                /\ ret[p].Body = arg[p].body

\* C5 (amended): such an Update issues GET(id), PUT(id, v+1), the prune step's
\* own GET(id), v version DELETEs, GET(id) and no other call; it returns the
\* body passed and the version number the store then reports: v+1 less the
\* versions the DELETEs removed.
C5_UpdateCallsWithPruneFetch ==
    \A p \in Procs :
        CleanUpdate(p) =>
            LET v == calls[p][1].ver
                id == arg[p].contentId
                removed == Cardinality({i \in DOMAIN calls[p] :
                              calls[p][i].m = "VDELETE" /\ calls[p][i].st = StatusNoContent})
            IN  /\ Methods(p) = <<"GET", "PUT", "GET">> \o Repeat("VDELETE", v) \o <<"GET">>
                /\ \A i \in DOMAIN calls[p] : calls[p][i].id = id
                /\ calls[p][2].ver = v + 1
                /\ calls[p][3].ver = v + 1
                /\ ret[p].Body = arg[p].body
                /\ ret[p].Version = v + 1 - removed
                /\ ret[p].Version = Len(pages[id].hist)

C5_Witness ==
    \E p \in Procs :
        /\ CleanUpdate(p) /\ calls[p][1].ver = 2
        /\ Count(p, "VDELETE") = 2 /\ ret[p].Version = 1

\* The version number the prune step of p fetched: its own GET is the third
\* call of an Update and the first of a plain Prune.
PruneFetchIndex(p) == IF kind[p] = "Update" THEN 3 ELSE 1
Planned(p) == Max0(calls[p][PruneFetchIndex(p)].ver - arg[p].numberOfVersionsToKeep)
InPruneLoop(p) == pc[p] = "prune_delete"
PastPrune(p) ==
    /\ kind[p] \in {"Update", "Prune"} /\ arg[p].removePreviousVersions
    /\ \/ kind[p] = "Prune" /\ Returned(p)
       \/ kind[p] = "Update" /\ pc[p] = "final_get"
       \/ kind[p] = "Update" /\ Returned(p) /\ Len(calls[p]) > 3

\* C6 (as claimed): a prune that ran to its end issued max(0, current - keep)
\* version DELETEs, and after an Update with pruning the fetched version
\* number less the versions retained is the number of DELETEs issued.
C6_DeleteCountAsClaimed ==
    \A p \in Procs :
        /\ PastPrune(p) => Count(p, "VDELETE") = Planned(p)
        /\ (PruningUpdate(p) /\ Succeeded(p) /\ ret[p].ResponseStatusCode = StatusOK) =>
              \/ ret[p].Version - arg[p].numberOfVersionsToKeep = Count(p, "VDELETE")
              \/ ret[p].Version - Len(pages[arg[p].contentId].hist) = Count(p, "VDELETE")

\* The loop counter plus the DELETEs issued is always the planned
\* max(0, fetched - keep), whatever each DELETE was answered; a prune that ran
\* to its end issued exactly that many, none when fetched - keep <= 0.
C6_PruneCount ==
    \A p \in Procs :
        /\ InPruneLoop(p) =>
              /\ versionsToDelete[p] >= 1
              /\ versionsToDelete[p] + Count(p, "VDELETE") = Planned(p)
        /\ PastPrune(p) => Count(p, "VDELETE") = Planned(p)
        /\ Count(p, "VDELETE") > 0 => Count(p, "VDELETE") <= Planned(p)

\* C6 (amended): a prune with keep >= 1 issues exactly max(0, n - keep) version
\* DELETEs, n being the version number its own fetch brought back, whatever
\* status each DELETE is answered with (none when n - keep <= 0), and, its
\* calls returning, it always leaves the loop: it goes on to the closing
\* fetch of its Update, returns, or ends the process.
C6_PruneTerminates ==
    /\ []C6_PruneCount
    /\ \A p \in Procs : (pc[p] \in {"prune_get", "prune_delete"}) ~> Free(p) \/ pc[p] = "final_get"

C6_Witness ==
    \E p \in Procs :
        /\ kind[p] = "Prune" /\ Returned(p) /\ arg[p].numberOfVersionsToKeep = 1
        /\ Count(p, "VDELETE") = 2
        /\ \E i \in DOMAIN calls[p] : calls[p][i].m = "VDELETE" /\ calls[p][i].st = 500

\* C7: the prune loop never has more DELETEs left than the page has old
\* versions, so it never aims at the current version; after every successful
\* Update, pruned fully or in part, the page exists and its current body is
\* the body passed.
C7_CurrentVersionKept ==
    \A p \in Procs :
        /\ InPruneLoop(p) =>
              /\ Exists(arg[p].contentId)
              /\ versionsToDelete[p] <= Len(pages[arg[p].contentId].hist) - 1
        /\ (kind[p] = "Update" /\ Succeeded(p)) =>
              /\ Exists(arg[p].contentId)
              /\ CurrentBody(arg[p].contentId) = arg[p].body

C7_Witness ==
    \E p \in Procs :
        /\ PruningUpdate(p) /\ Succeeded(p)
        /\ Count(p, "VDELETE") = 2
        /\ \E i \in DOMAIN calls[p] : calls[p][i].m = "VDELETE" /\ calls[p][i].st = 500
        /\ Len(pages[arg[p].contentId].hist) = 2

\* Some version DELETE of p was answered with a status other than 204.
PruneWarning(p) ==
    \E i \in DOMAIN calls[p] :
        calls[p][i].m = "VDELETE" /\ Answered(calls[p][i]) /\ calls[p][i].st # StatusNoContent

\* C8: a version DELETE answered other than 204 changes nothing in the course
\* of the Update: the loop runs its planned number of passes, the process ends
\* only on a call that got no answer, and the Update then makes its closing
\* fetch and returns that fetch's record with no error.
C8_PruneWarningNotEscalated ==
    \A p \in Procs :
        (kind[p] = "Update" /\ PruneWarning(p)) =>
            /\ InPruneLoop(p) => versionsToDelete[p] + Count(p, "VDELETE") = Planned(p)
            /\ pc[p] = "exited" => ~Answered(Last(p))
            /\ pc[p] = "final_get" => Count(p, "VDELETE") = Planned(p)
            /\ Returned(p) =>
                  /\ Count(p, "VDELETE") = Planned(p)
                  /\ Last(p).m = "GET" /\ Last(p).id = arg[p].contentId
                  /\ Len(calls[p]) = 3 + Planned(p) + 1
                  /\ Answered(Last(p)) =>
                        /\ err[p] = Nil
                        /\ ret[p] = Fetched(arg[p].contentId, Last(p).st)
                  /\ err[p] # Nil => ~Answered(Last(p))

C8_Witness ==
    \E p \in Procs :
        /\ kind[p] = "Update" /\ Succeeded(p) /\ Len(calls[p]) = 6
        /\ calls[p][4].m = "VDELETE" /\ calls[p][4].st = 500
        /\ calls[p][5].m = "VDELETE" /\ calls[p][5].st = StatusNoContent
        /\ ret[p].ResponseStatusCode = StatusOK

\* C9: a POST or PUT answered with a status other than 200 is the last call
\* of its operation, which returns an error.
C9_RejectionAborts ==
    \A p \in Procs :
        \A i \in DOMAIN calls[p] :
            (calls[p][i].m \in {"POST", "PUT"} /\ Answered(calls[p][i])
                /\ calls[p][i].st # StatusOK)
                => /\ i = Len(calls[p])
                   /\ Returned(p)
                   /\ err[p] # Nil
                   /\ ret[p] = ZeroDetail

C9_Witness ==
    \E p \in Procs :
        /\ kind[p] = "Update" /\ Returned(p) /\ Len(calls[p]) = 2
        /\ calls[p][1].st = StatusOK
        /\ calls[p][2].m = "PUT" /\ calls[p][2].st = 500

\* C10 (as claimed): an operation whose body fails validation issues no
\* network call, and when it has ended it has returned an error.
C10_InvalidBodyNoNetworkCall ==
    \A p \in Procs :
        (kind[p] \in {"Create", "Update"} /\ Rejects(arg[p].body))
            => /\ calls[p] = <<>>
               /\ Free(p) => (Returned(p) /\ err[p] # Nil)

\* The record the FetchById that follows the return of p brings back for the
\* id p returned, the store answering it.
FetchAfter(p) == GetContentDetailById(StoreGet(ret[p].Id)).detail

RoundTrip(p) ==
    LET P == arg[p].parentContentId
        f == FetchAfter(p)
    IN  /\ Exists(P)
        /\ f.ResponseStatusCode = StatusOK
        /\ f.Id = ret[p].Id
        /\ f.Title = arg[p].title
        /\ f.Body = arg[p].body
        /\ f.ParentContentId = P
        /\ f.SpaceId = pages[P].spaceId
        /\ pageResourceModel(ret[p]) = pageResourceModel(f)

C12_NoPostAfterFailedParentLookup ==
    \A p \in Procs :
        (kind[p] = "Create" /\ Len(calls[p]) >= 1
            /\ (~Answered(calls[p][1]) \/ calls[p][1].st # StatusOK))
            => /\ Count(p, "POST") = 0
               /\ Free(p) => (Returned(p) /\ err[p] # Nil)

\* The mutating call of a Create or an Update.
Mutation(p) == IF kind[p] = "Create" THEN "POST" ELSE "PUT"

\* C13: a Create or Update that returned no error made its POST or PUT, had it
\* answered 200, and after it fetched the page by id (Create: the id the POST
\* brought back, and nothing else of that answer); the fetch is its last call
\* and the record returned is that fetch's record, status included.
C13_ReturnedRecordIsFetched ==
    \A p \in Procs :
        (kind[p] \in {"Create", "Update"} /\ Succeeded(p)) =>
            \E j \in 1..(Len(calls[p]) - 1) :
                /\ calls[p][j].m = Mutation(p)
                /\ calls[p][j].st = StatusOK /\ Answered(calls[p][j])
                /\ Last(p).m = "GET" /\ Answered(Last(p))
                /\ Last(p).id = (IF kind[p] = "Create" THEN calls[p][j].id
                                 ELSE arg[p].contentId)
                /\ ret[p] = Fetched(Last(p).id, Last(p).st)

C13_Witness ==
    \E p \in Procs :
        /\ kind[p] = "Create" /\ Succeeded(p) /\ Len(calls[p]) = 3
        /\ calls[p][2].m = "POST" /\ calls[p][2].id = RootId + 1
        /\ calls[p][3].m = "GET" /\ calls[p][3].id = RootId + 1
        /\ ret[p] = Fetched(RootId + 1, StatusOK)

\* C14 (as claimed): whatever response the store gives to its GET, 200 or not,
\* a FetchById returns to its caller with no error and with the status of the
\* response recorded in the record.
C14_StatusPassedThrough ==
    \A p \in Procs :
        (kind[p] = "Fetch" /\ Len(calls[p]) = 1 /\ calls[p][1].kind # "transport")
            => /\ Returned(p)
               /\ err[p] = Nil
               /\ ret[p].ResponseStatusCode = calls[p][1].st

\* C15: on a fetch answered 404 the resource's Read removes the resource from
\* state and reports no error; on any other answer but 200 it reports an error
\* and leaves the state as it was; the data source's Read reports an error on
\* every answer but 200, 404 included, and leaves its state null; on 200 both
\* set the state from the fetched record and report nothing.
C15_NotFoundPerCaller ==
    \A p \in Procs :
        (kind[p] \in {"ResourceRead", "DataSourceRead"} /\ Returned(p)
            /\ Answered(calls[p][1])) =>
            LET st == calls[p][1].st
                read == pageResourceModel(Fetched(arg[p].contentId, st))
            IN  /\ Len(calls[p]) = 1
                /\ kind[p] = "ResourceRead" =>
                      /\ st = StatusNotFound => (state[p] = NullState /\ diags[p] = <<>>)
                      /\ st \notin {StatusOK, StatusNotFound} =>
                            (state[p] = arg[p].state /\ diags[p] # <<>>)
                      /\ st = StatusOK => (state[p] = read /\ diags[p] = <<>>)
                /\ kind[p] = "DataSourceRead" =>
                      /\ st # StatusOK => (state[p] = NullState /\ diags[p] # <<>>)
                      /\ st = StatusOK => (state[p] = read /\ diags[p] = <<>>)

C15_Witness ==
    \E p \in Procs :
        /\ kind[p] = "ResourceRead" /\ Returned(p)
        /\ arg[p].state \in PriorStates
        /\ calls[p][1].st = StatusNotFound
        /\ state[p] = NullState /\ diags[p] = <<>>

\* C16: a Delete issues one call and no more, a DELETE of the page passed,
\* never a GET or a version DELETE; the call answered, it returns, with an
\* error when the status is not 200 and with none when it is 200.
C16_DeleteOneCall ==
    \A p \in Procs :
        kind[p] = "Delete" =>
            /\ pc[p] = "delete_page" => calls[p] = <<>>
            /\ Free(p) => Len(calls[p]) = 1
            /\ \A i \in DOMAIN calls[p] :
                  calls[p][i].m = "DELETE" /\ calls[p][i].id = arg[p].contentId
            /\ (Free(p) /\ Answered(Last(p))) =>
                  /\ Returned(p)
                  /\ Last(p).st = StatusOK <=> err[p] = Nil

C16_Witness ==
    \E p \in Procs :
        /\ kind[p] = "Delete" /\ Returned(p) /\ err[p] # Nil
        /\ calls[p] = <<Call("DELETE", RootId + 1, 0, Http(StatusNotFound, ZeroDetail))>>

\* C17 (as claimed): a call that fails in transport is the last call of its
\* operation, which returns an error to its caller; and no operation that has
\* issued a call ends the host process.
C17_TransportFailureReturned ==
    \A p \in Procs :
        /\ \A i \in DOMAIN calls[p] :
              calls[p][i].kind = "transport" =>
                  (i = Len(calls[p]) /\ Returned(p) /\ err[p] # Nil)
        /\ calls[p] # <<>> => pc[p] # "exited"

\* C18: whatever the store answers, one invocation issues at most one POST
\* (Create only), at most one PUT (Update only) and at most one page DELETE
\* (Delete only); and a version DELETE that failed is not issued again for its
\* pass of the loop: each DELETE, failed or not, takes one off the counter,
\* so the DELETEs issued never exceed the number planned at the prune's fetch.
C18_NoRetry ==
    \A p \in Procs :
        /\ Count(p, "POST") <= (IF kind[p] = "Create" THEN 1 ELSE 0)
        /\ Count(p, "PUT") <= (IF kind[p] = "Update" THEN 1 ELSE 0)
        /\ Count(p, "DELETE") <= (IF kind[p] = "Delete" THEN 1 ELSE 0)
        /\ \A i \in DOMAIN calls[p] :
              (calls[p][i].m \in {"POST", "PUT", "DELETE"} /\ calls[p][i].st # StatusOK)
                  => i = Len(calls[p])
        /\ Count(p, "VDELETE") > 0 =>
              /\ Count(p, "VDELETE") <= Planned(p)
              /\ InPruneLoop(p) => Count(p, "VDELETE") + versionsToDelete[p] = Planned(p)

C18_Witness ==
    \E p \in Procs :
        /\ kind[p] = "Create" /\ Returned(p) /\ err[p] # Nil
        /\ Len(calls[p]) = 2 /\ Count(p, "POST") = 1
        /\ Last(p).m = "POST" /\ Last(p).kind = "transport"

\* C19: a Prune asked to keep fewer than one version has ended at once: it
\* issues no call, in particular no version DELETE, and returns nothing.
C19_PruneRefusesKeepBelowOne ==
    \A p \in Procs :
        (kind[p] = "Prune" /\ arg[p].numberOfVersionsToKeep < 1)
            => /\ pc[p] = "exited"
               /\ calls[p] = <<>>

C19_Witness ==
    \E p \in Procs :
        /\ kind[p] = "Prune" /\ arg[p].numberOfVersionsToKeep = 0 /\ pc[p] = "exited"
        /\ calls[p] = <<>>
        /\ Exists(arg[p].contentId) /\ Len(pages[arg[p].contentId].hist) = MaxVersions

\* A Create or Update that returned no error and a record with status 200.
ReturnedRecord(p) ==
    /\ kind[p] \in {"Create", "Update"} /\ Succeeded(p)
    /\ ret[p].ResponseStatusCode = StatusOK

\* The versions the version DELETEs of p removed.
Removed(p) ==
    Cardinality({i \in DOMAIN calls[p] :
                    calls[p][i].m = "VDELETE" /\ calls[p][i].st = StatusNoContent})

\* C20 (as claimed): every record returned by a Create or an Update has a
\* version number of at least 1, a Create returns version number 1, and an
\* Update returns the version number the page had before it plus 1.
C20_VersionGrowsByOne ==
    \A p \in Procs :
        ReturnedRecord(p) =>
            /\ ret[p].Version >= 1
            /\ kind[p] = "Create" => ret[p].Version = 1
            /\ kind[p] = "Update" => ret[p].Version = calls[p][1].ver + 1

\* C20 (amended): every record returned with status 200 has a version number
\* of at least 1; a Create returns version number 1; an Update of a page at
\* version v sends v+1 in its PUT and returns the number the store reports
\* after the prune: v+1 less the versions removed, so v+1 without pruning and
\* 1 when every version DELETE of the prune was answered 204.
C20_VersionAfterPrune ==
    \A p \in Procs :
        ReturnedRecord(p) =>
            /\ ret[p].Version >= 1
            /\ kind[p] = "Create" => ret[p].Version = 1
            /\ kind[p] = "Update" =>
                  LET v == calls[p][1].ver
                  IN  /\ calls[p][1].st = StatusOK /\ v >= 1
                      /\ calls[p][2].m = "PUT" /\ calls[p][2].ver = v + 1
                      /\ ret[p].Version = v + 1 - Removed(p)
                      /\ ~arg[p].removePreviousVersions => ret[p].Version = v + 1
                      /\ (arg[p].removePreviousVersions /\ calls[p][3].st = StatusOK
                            /\ ~PruneWarning(p)) => ret[p].Version = 1

C20_Witness ==
    \E p \in Procs :
        /\ ReturnedRecord(p) /\ PruningUpdate(p)
        /\ calls[p][1].ver = 1 /\ calls[p][2].ver = 2
        /\ Removed(p) = 1 /\ ret[p].Version = 1

\* The identity of a page: what an Update is to leave alone.
Identity(id) ==
    [exists |-> pages[id].exists, title |-> pages[id].title,
     spaceId |-> pages[id].spaceId, parentId |-> pages[id].parentId]

\* The PUT an Update is about to issue carries the id, title and space id of
\* the record its fetch brought back, which for a fetch answered 200 are those
\* of the page in the store.
PutCarriesFetched(p) ==
    (kind[p] = "Update" /\ pc[p] = "update_put") =>
        /\ request[p].Id = detail[p].Id
        /\ request[p].Title = detail[p].Title
        /\ request[p].SpaceId = detail[p].SpaceId
        /\ request[p].Body = arg[p].body
        /\ calls[p][1].st = StatusOK =>
              /\ detail[p] = Fetched(arg[p].contentId, StatusOK)
              /\ request[p].Id = arg[p].contentId
              /\ request[p].Title = pages[arg[p].contentId].title
              /\ request[p].SpaceId = pages[arg[p].contentId].spaceId

\* No step of an Update in progress changes whether a page exists, its title,
\* its space id or its parent, nor the history of any page but its own.
UpdateStepKeepsIdentity ==
    \A p \in Procs :
        (kind[p] = "Update" /\ ~Free(p)) =>
            \A id \in PageIds :
                /\ Identity(id)' = Identity(id)
                /\ id # arg[p].contentId => pages'[id] = pages[id]

\* C21: the PUT of an Update carries the id, title and space id its own fetch
\* brought back, unchanged, with the body passed; and no step of an Update
\* changes the id, title, space id or parent of a page, so these stay what
\* Create made them through any sequence of Updates.
C21_UpdateFrame ==
    /\ [](\A p \in Procs : PutCarriesFetched(p))
    /\ [][UpdateStepKeepsIdentity]_vars

C21_Witness ==
    \E p \in Procs :
        /\ kind[p] = "Update" /\ Succeeded(p) /\ ~arg[p].removePreviousVersions
        /\ calls[p][2].m = "PUT" /\ calls[p][2].st = StatusOK /\ calls[p][2].ver = 3
        /\ Identity(arg[p].contentId) =
              [exists |-> TRUE, title |-> "T2", spaceId |-> pages[RootId].spaceId,
               parentId |-> RootId]
        /\ ret[p].Title = "T2" /\ ret[p].Body = arg[p].body

\* Both callers read the same version number and both sent a PUT carrying the
\* same number.
SameVersionPut(p, q) ==
    /\ kind[p] = "Update" /\ kind[q] = "Update" /\ arg[p].contentId = arg[q].contentId
    /\ Len(calls[p]) >= 2 /\ Len(calls[q]) >= 2
    /\ calls[p][1].st = StatusOK /\ calls[q][1].st = StatusOK
    /\ calls[p][1].ver = calls[q][1].ver
    /\ calls[p][2].m = "PUT" /\ calls[q][2].m = "PUT"
    /\ calls[p][2].ver = calls[q][2].ver

\* The prune of p fetched another version number than the PUT of p had just
\* written: the other caller changed the history in between.
PruneCountFromChangedHistory(p) ==
    /\ PruningUpdate(p) /\ Len(calls[p]) >= 3
    /\ calls[p][2].st = StatusOK /\ calls[p][3].st = StatusOK
    /\ calls[p][3].ver # calls[p][2].ver

\* A state of the second interleaving in its sharpest form: the prune of one
\* caller counts a version the other caller wrote after it.
ForeignVersionCounted ==
    \E p \in Procs :
        /\ PruneCountFromChangedHistory(p) /\ InPruneLoop(p)
        /\ versionsToDelete[p] = 2

\* C22: nothing isolates two Updates of one page.  A caller about to PUT sends
\* the version number it read plus 1 whatever the other caller has done since,
\* and its PUT is not held back; two callers that read the same number hold
\* requests with the same number; and a prune keeps to the count it took at
\* its own fetch, whatever the other caller does to the history meanwhile.
C22_NoIsolation ==
    \A p \in Procs :
        /\ (kind[p] = "Update" /\ pc[p] = "update_put") =>
              /\ request[p].Version = calls[p][1].ver + 1
              /\ ENABLED UpdatePut(p)
              /\ \A q \in Procs \ {p} :
                    (kind[q] = "Update" /\ pc[q] = "update_put"
                        /\ calls[q][1].ver = calls[p][1].ver)
                        => request[q].Version = request[p].Version
        /\ InPruneLoop(p) =>
              /\ versionsToDelete[p] + Count(p, "VDELETE") = Planned(p)
              /\ ENABLED PruneDelete(p)

\* Both callers read version 1 and both sent PUT 2, each accepted, and the
\* second caller's prune count was taken from a history whose oldest version
\* the first caller wrote.
C22_Witness ==
    /\ SameVersionPut(1, 2)
    /\ calls[1][2].ver = 2 /\ calls[1][2].st = StatusOK /\ calls[2][2].st = StatusOK
    /\ InPruneLoop(2) /\ versionsToDelete[2] = 1
    /\ pages[SharedId].hist = <<OwnBody(1), OwnBody(2)>>

\* A validation of a known string that has returned.
Validated(p) == kind[p] = "ValidateString" /\ Returned(p) /\ arg[p].title = "known"

\* The markup parses to its end without a structural error.
ParsesCleanly(markup) == xmlDecode(markup, <<>>, <<>>, <<>>) = EOF

HasBareBreak(markup) == Contains(markup, "<br>") \/ Contains(markup, "<br/>")
HasBareRule(markup) == Contains(markup, "<hr>") \/ Contains(markup, "<hr/>")

\* Text, paragraphs opened and closed in order, and line breaks and rules in
\* their spaced forms only.
RECURSIVE Balanced(_, _)
Balanced(markup, depth) ==
    IF markup = <<>> THEN depth = 0
    ELSE CASE Head(markup) = "<p>" -> Balanced(Tail(markup), depth + 1)
           [] Head(markup) = "</p>" -> depth > 0 /\ Balanced(Tail(markup), depth - 1)
           [] Head(markup) \in {"ok", "<br />", "<hr />"} -> Balanced(Tail(markup), depth)
           [] OTHER -> FALSE

\* C23: the validator reports nothing for every markup that parses to its end
\* without a structural error and holds none of <br>, <br/>, <hr>, <hr/>; in
\* particular for every markup of text, balanced paragraphs and the forms
\* <br /> and <hr />.
C23_ValidatorAccepts ==
    \A p \in Procs :
        Validated(p) =>
            /\ (ParsesCleanly(arg[p].body) /\ ~HasBareBreak(arg[p].body)
                    /\ ~HasBareRule(arg[p].body))
                  => (err[p] = Nil /\ diags[p] = <<>>)
            /\ Balanced(arg[p].body, 0) => (err[p] = Nil /\ diags[p] = <<>>)

C23_Witness ==
    \E p \in Procs :
        /\ Validated(p) /\ arg[p].body = <<"<hr />", "ok", "<br />">>
        /\ err[p] = Nil /\ diags[p] = <<>>

\* C24: a structural parse error is reported as the parser's own error
\* whatever tag forms the markup holds; markup that parses cleanly and holds
\* <br> or <br/> is reported with the error naming <br />; markup that parses
\* cleanly, holds neither and holds <hr> or <hr/> is reported with the error
\* naming <hr />.
C24_ValidatorClassifies ==
    \A p \in Procs :
        Validated(p) =>
            LET markup == arg[p].body
                parse == xmlDecode(markup, <<>>, <<>>, <<>>)
            IN  /\ ~ParsesCleanly(markup) =>
                      (err[p] = parse /\ diags[p] = <<parse>>
                          /\ parse \notin {Nil, BrError, HrError})
                /\ (ParsesCleanly(markup) /\ HasBareBreak(markup)) =>
                      (err[p] = BrError /\ diags[p] = <<BrError>>)
                /\ (ParsesCleanly(markup) /\ ~HasBareBreak(markup) /\ HasBareRule(markup)) =>
                      (err[p] = HrError /\ diags[p] = <<HrError>>)

C24_Witness ==
    \E p \in Procs :
        /\ Validated(p) /\ arg[p].body = <<"ok", "</p>", "<br>">>
        /\ diags[p] = <<"XML syntax error: unexpected end element">>

\* A Configure that has returned, and the value an attribute should resolve to.
Configured(p) == kind[p] = "Configure" /\ Returned(p)
Expected(configured, envValue) == IF configured.null THEN envValue ELSE configured.value

\* C25: each of base URL, username and API key is resolved on its own, a
\* configured value that is not null before the environment's; the client
\* configuration handed on holds the three resolved values; and when one of
\* them is empty, Configure reports an error and hands nothing on.
C25_ConfigurePrecedence ==
    \A p \in Procs :
        Configured(p) =>
            LET baseurl == Expected(arg[p].config.BaseUrl, arg[p].env.BaseUrl)
                username == Expected(arg[p].config.Username, arg[p].env.Username)
                apikey == Expected(arg[p].config.Apikey, arg[p].env.Apikey)
            IN  /\ client[p].set => client[p] = NewConfig(baseurl, username, apikey)
                /\ diags[p] = <<>> => client[p].set
                /\ "" \in {baseurl, username, apikey} => (diags[p] # <<>> /\ ~client[p].set)

C25_Witness ==
    \E p \in Procs :
        /\ Configured(p)
        /\ arg[p].config = [BaseUrl |-> StringValue("cfg"), Username |-> StringNull,
                            Apikey |-> StringValue("cfg")]
        /\ arg[p].env = [BaseUrl |-> "env", Username |-> "env", Apikey |-> ""]
        /\ client[p] = NewConfig("cfg", "env", "cfg")
        /\ diags[p] = <<>>

\* The error Configure has for an attribute given as an unknown value, and the
\* errors it has only once the credentials are resolved.
UnknownError(attribute) ==
    CASE attribute = "BaseUrl" -> "base_url: Unknown Confluence Cloud API Base Url"
      [] attribute = "Username" -> "username: Unknown Confluence Cloud API Username"
      [] attribute = "Apikey" -> "api_key: Unknown Confluence Cloud API Key"
AfterResolution ==
    {"base_url: Missing Confluence API Base Url", "username: Missing Confluence API username",
     "api_key: Missing Confluence API key", "Unable to Create Confluence API Client"}

\* C26 (as claimed): when base_url, username or api_key is given as an unknown
\* value, Configure reports the error of that attribute and returns before it
\* resolves the credentials or contacts the store: no error of the later
\* passes is reported, no call is issued and nothing is handed on.
C26_UnknownAttributeRejected ==
    \A p \in Procs :
        Configured(p) =>
            \A attribute \in {"BaseUrl", "Username", "Apikey"} :
                arg[p].config[attribute].unknown =>
                    /\ \E i \in DOMAIN diags[p] : diags[p][i] = UnknownError(attribute)
                    /\ \A i \in DOMAIN diags[p] : diags[p][i] \notin AfterResolution
                    /\ calls[p] = <<>>
                    /\ ~client[p].set

\* A handler of the resource that has returned after a last fetch answered
\* with a status other than 200.
Handled(p) == Returned(p) /\ (arg[p].handler \/ kind[p] = "ResourceRead")
LastFetchNot200(p) ==
    /\ calls[p] # <<>>
    /\ Last(p).m = "GET" /\ Last(p).kind = "http" /\ Last(p).st # StatusOK

\* C27 (as claimed): in the resource's Create, Read and Update alike, when the
\* last fetch of the operation is answered with a status other than 200, the
\* state is left as it was and an error is reported; or, for a Read and 404,
\* the resource is removed from the state.
C27_StateOnlyFrom200 ==
    \A p \in Procs :
        (Handled(p) /\ LastFetchNot200(p)) =>
            IF kind[p] = "ResourceRead" /\ Last(p).st = StatusNotFound
            THEN state[p].null
            ELSE state[p] = arg[p].state /\ diags[p] # <<>>

\* The same of Read and Update only: what the code keeps of the claim.
ReadUpdateStateOnlyFrom200 ==
    \A p \in Procs :
        (Handled(p) /\ LastFetchNot200(p) /\ kind[p] # "Create") =>
            IF kind[p] = "ResourceRead" /\ Last(p).st = StatusNotFound
            THEN state[p].null
            ELSE state[p] = arg[p].state /\ diags[p] # <<>>

\* Every answered call of the prune step leads on: the liveness of C6.
FairSpec == Spec /\ WF_vars(Step(1))

====
